---- MODULE Spec2Model ----
(***************************************************************************)
(* terraspec: the test orchestrator of main (test case discovery, one      *)
(* goroutine per test case, fan-in over the unbuffered reports channel,    *)
(* exit code derivation).  The planning engine and the spec library are    *)
(* external: each call into them returns nondeterministically chosen       *)
(* diagnostics, or never returns.                                          *)
(***************************************************************************)
EXTENDS Integers, Sequences, FiniteSets, TLC

\* Bounds of the model.
MaxSubdirs == 2     \* subdirectories of the root in the discovery trees
MaxCases == 2       \* test cases of the trees the orchestration runs on

VARIABLES
    fs,          \* the directory tree under *specDir
    proc,        \* "running", "exited" (os.Exit at the end of main), "fatal" (log.Fatal)
    status,      \* the process exit status once proc # "running"
    mainPc,      \* position of main
    testCases,   \* main: testCases
    idx,         \* main: index of the spawning loop
    chanMade,    \* reports has been made
    chanClosed,  \* close(reports) has run
    wg,          \* counter of the sync.WaitGroup
    exitCode,    \* main: exitCode
    printed,     \* the reports printed so far, in order
    closerPc,    \* position of the goroutine that waits and closes
    taskPc,      \* per test case goroutine: its position in runTestCase
    ctxDiags,    \* per task: runTestCase's ctxDiags
    mocks,       \* per task: len(spec.Mocks) once ReadSpec has returned
    calls,       \* per task: the stage calls made so far, in order, each with its outcome
    outbox,      \* per task: the report offered on the channel by a blocked send
    logOut,      \* the output of the process-wide standard logger (package log)
    attrPath,        \* printDiags: the attribute path of the diagnostic being printed
    rendered     \* printDiags: what formatPath returned for it

vars == << fs, proc, status, mainPc, testCases, idx, chanMade, chanClosed, wg, exitCode,
           printed, closerPc, taskPc, ctxDiags, mocks, calls, outbox, logOut, attrPath, rendered >>

Tasks == 1..MaxCases

None == [none |-> TRUE]

-----------------------------------------------------------------------------
(* File names, paths and directory trees.                                  *)
(* A file name is a sequence of tokens in which "." stands alone; a path   *)
(* is a sequence of names; the empty string is the empty sequence.         *)

EmptyString == << >>

\* filepath.Ext: the suffix of the name from its last dot on, empty without a dot.
LastDot(name) ==
    LET dots == { i \in 1..Len(name) : name[i] = "." }
    IN  IF dots = {} THEN 0 ELSE CHOOSE i \in dots : \A j \in dots : j <= i

Ext(name) ==
    IF LastDot(name) = 0 THEN EmptyString ELSE SubSeq(name, LastDot(name), Len(name))

TfSpecExt == << ".", "tfspec" >>
TfVarsExt == << ".", "tfvars" >>

\* filepath.Join(dir, name) and filepath.Base(path)
Join(dir, name) == Append(dir, name)
Base(path) == path[Len(path)]

\* A directory: whether ioutil.ReadDir succeeds on it, and its entries in the
\* order ReadDir returns them.  An entry: name, IsDir(), and the directory it is.
NoDir == [readable |-> FALSE, entries |-> << >>]
File(name) == [name |-> name, isDir |-> FALSE, dir |-> NoDir]
Dir(name, d) == [name |-> name, isDir |-> TRUE, dir |-> d]

\* testCase.name()
CaseName(tc) == Base(tc.dir)

\* findCase: nil is None.  The last .tfvars and the last .tfspec entry win.
RECURSIVE ScanFiles(_, _, _, _, _)
ScanFiles(rootDir, fis, i, varFile, specFile) ==
    IF i > Len(fis) THEN [variableFile |-> varFile, specFile |-> specFile]
    ELSE IF fis[i].isDir THEN ScanFiles(rootDir, fis, i + 1, varFile, specFile)
    ELSE LET v == IF Ext(fis[i].name) = TfVarsExt THEN Join(rootDir, fis[i].name) ELSE varFile
             s == IF Ext(fis[i].name) = TfSpecExt THEN Join(rootDir, fis[i].name) ELSE specFile
         IN  ScanFiles(rootDir, fis, i + 1, v, s)

findCaseUnreadableIsCase(rootDir, d) ==
    LET found == ScanFiles(rootDir, d.entries, 1, EmptyString, EmptyString)
    IN  IF found.specFile # EmptyString
        THEN [dir |-> rootDir, variableFile |-> found.variableFile, specFile |-> found.specFile]
        ELSE None

findCase(rootDir, d) ==
    IF ~d.readable THEN None
    ELSE LET found == ScanFiles(rootDir, d.entries, 1, EmptyString, EmptyString)
         IN  IF found.specFile # EmptyString
             THEN [dir |-> rootDir, variableFile |-> found.variableFile,
                   specFile |-> found.specFile]
             ELSE None

\* findCases, for a readable root: the subdirectories in order, then the root itself.
RECURSIVE ScanSubdirs(_, _, _, _)
ScanSubdirs(rootDir, rootFis, i, acc) ==
    IF i > Len(rootFis) THEN acc
    ELSE IF ~rootFis[i].isDir THEN ScanSubdirs(rootDir, rootFis, i + 1, acc)
    ELSE LET tc == findCase(Join(rootDir, rootFis[i].name), rootFis[i].dir)
         IN  ScanSubdirs(rootDir, rootFis, i + 1, IF tc # None THEN Append(acc, tc) ELSE acc)

findCasesSkipsRoot(rootDir, d) == ScanSubdirs(rootDir, d.entries, 1, << >>)

findCases(rootDir, d) ==
    LET subs == ScanSubdirs(rootDir, d.entries, 1, << >>)
        tc == findCase(rootDir, d)
    IN  IF tc # None THEN Append(subs, tc) ELSE subs

RootPath == << << "spec" >> >>      \* *specDir, by default "spec"

\* The entries a tree is built from, in ReadDir's (name) order.
FileUniverse ==
    << File(<< "a", ".", "tfspec" >>),
       File(<< "b", ".", "tfvars" >>),
       File(<< "c", ".", "tfspec", ".", "bak" >>) >>

RECURSIVE Pick(_, _, _)
Pick(seq, sel, i) ==
    IF i > Len(seq) THEN << >>
    ELSE (IF i \in sel THEN << seq[i] >> ELSE << >>) \o Pick(seq, sel, i + 1)

\* A directory one level below a subdirectory, holding a spec file of its own.
DeepDir ==
    Dir(<< "deep", ".", "tfspec" >>,
        [readable |-> TRUE, entries |-> << File(<< "a", ".", "tfspec" >>) >>])

SubdirChoices == [readable : BOOLEAN, files : SUBSET (1..Len(FileUniverse)), nested : BOOLEAN]

MkSubdir(i, c) ==
    Dir(<< "case", ToString(i) >>,
        [readable |-> c.readable,
         entries |-> Pick(FileUniverse, c.files, 1) \o (IF c.nested THEN << DeepDir >> ELSE << >>)])

MkRoot(fsel, subs) ==
    [readable |-> TRUE,
     entries |-> Pick(FileUniverse, fsel, 1)
                 \o [i \in 1..Len(subs) |-> MkSubdir(i, subs[i])]]

\* Whether d is a tree of the bounded family: an unreadable root, or a readable root
\* with any files of the universe and up to MaxSubdirs subdirectories.
IsTree(d) ==
    \/ d = NoDir
    \/ \E k \in 0..MaxSubdirs :
        \E fsel \in SUBSET (1..Len(FileUniverse)), subs \in [1..k -> SubdirChoices] :
            d = MkRoot(fsel, subs)

\* The trees the orchestration runs on: up to MaxCases case directories with a spec
\* and a variables file under a root without a spec file, and a root that is the one
\* test case itself.
OrchSubdir == [readable |-> TRUE, files |-> {1, 2}, nested |-> FALSE]

OrchTrees ==
    { MkRoot({}, [i \in 1..k |-> OrchSubdir]) : k \in 0..MaxCases }
    \cup { MkRoot({1}, << >>) }

-----------------------------------------------------------------------------
(* Diagnostics and reports.                                                *)

Diag(sev, stage) == [severity |-> sev, source |-> stage]

\* tfdiags.Diagnostics.HasErrors
HasErrors(diags) == \E i \in 1..Len(diags) : diags[i].severity = "Error"

\* What a stage of the engine or of the spec library may return as diagnostics: one
\* value of each kind HasErrors tells apart, a warning alone and a warning with an
\* error, each diagnostic marked with the stage it comes from.
StageDiags(stage) ==
    { << Diag("Warning", stage) >>, << Diag("Warning", stage), Diag("Error", stage) >> }

\* What spec.Validate may return as diagnostics (with a nil err).
ValidateDiags == { << Diag("Info", "Validate") >>, << Diag("Error", "Validate") >> }

\* &testReport{name, report}; tc is the identity of the test case it is about.
Report(t, diags) == [tc |-> t, name |-> CaseName(testCases[t]), report |-> diags]

\* The process is alive until os.Exit (at the end of main, or inside log.Fatal).
AliveAlways == TRUE
Alive == proc = "running"

-----------------------------------------------------------------------------
(* The state after process start, before main has called findCases.        *)

InitRest ==
    /\ proc = "running"
    /\ status = 0
    /\ mainPc = "findCases"
    /\ testCases = << >>
    /\ idx = 1
    /\ chanMade = FALSE
    /\ chanClosed = FALSE
    /\ wg = 0
    /\ exitCode = 0
    /\ printed = << >>
    /\ closerPc = "idle"
    /\ taskPc = [t \in Tasks |-> "idle"]
    /\ ctxDiags = [t \in Tasks |-> << >>]
    /\ mocks = [t \in Tasks |-> 0]
    /\ calls = [t \in Tasks |-> << >>]
    /\ outbox = [t \in Tasks |-> None]
    /\ logOut = "stderr"

\* No diagnostic with an attribute path is being printed.
NoPath == attrPath = << >> /\ rendered = None

Init == fs \in OrchTrees /\ InitRest /\ NoPath

-----------------------------------------------------------------------------
(* main                                                                    *)

mainVars == << mainPc, testCases, idx, chanMade, exitCode, printed >>
taskVars == << taskPc, ctxDiags, mocks, calls, outbox >>

\* log.Fatal: the message is logged and the process exits with status 1.
logFatal ==
    /\ proc' = "fatal"
    /\ status' = 1

\* testCases := findCases(*specDir); if len(testCases) == 0 { log.Fatal }.
\* findCases itself ends in log.Fatal when the root cannot be read.
MainFindCasesNoCheck ==
    /\ Alive /\ mainPc = "findCases"
    /\ IF ~fs.readable
       THEN /\ logFatal
            /\ mainPc' = "aborted"
            /\ UNCHANGED testCases
       ELSE /\ testCases' = findCases(RootPath, fs)
            /\ mainPc' = "make"
            /\ UNCHANGED << proc, status >>
    /\ UNCHANGED << fs, logOut, attrPath, rendered, idx, chanMade, chanClosed, wg, exitCode, printed, closerPc >>
    /\ UNCHANGED taskVars

MainFindCases ==
    /\ Alive /\ mainPc = "findCases"
    /\ IF ~fs.readable
       THEN /\ logFatal
            /\ mainPc' = "aborted"
            /\ UNCHANGED testCases
       ELSE /\ testCases' = findCases(RootPath, fs)
            /\ IF Len(testCases') = 0
               THEN logFatal /\ mainPc' = "aborted"
               ELSE mainPc' = "make" /\ UNCHANGED << proc, status >>
    /\ UNCHANGED << fs, logOut, attrPath, rendered, idx, chanMade, chanClosed, wg, exitCode, printed, closerPc >>
    /\ UNCHANGED taskVars

\* reports := make(chan *testReport)
MainMakeChan ==
    /\ Alive /\ mainPc = "make"
    /\ chanMade' = TRUE
    /\ idx' = 1
    /\ mainPc' = "spawn"
    /\ UNCHANGED << fs, logOut, attrPath, rendered, proc, status, testCases, chanClosed, wg, exitCode, printed, closerPc >>
    /\ UNCHANGED taskVars

\* One iteration of the spawning loop: wg.Add(1); go func(tc) {...}(tc)
MainSpawn ==
    /\ Alive /\ mainPc = "spawn" /\ idx <= Len(testCases)
    /\ wg' = wg + 1
    /\ taskPc' = [taskPc EXCEPT ![idx] = "NewContextOptions"]
    /\ idx' = idx + 1
    /\ UNCHANGED << fs, logOut, attrPath, rendered, proc, status, mainPc, testCases, chanMade, chanClosed, exitCode,
                    printed, closerPc, ctxDiags, mocks, calls, outbox >>

\* exitCode := 0; go func() { wg.Wait(); close(reports) }()
MainStartCloser ==
    /\ Alive /\ mainPc = "spawn" /\ idx > Len(testCases)
    /\ exitCode' = 0
    /\ closerPc' = "wait"
    /\ mainPc' = "range"
    /\ UNCHANGED << fs, logOut, attrPath, rendered, proc, status, testCases, idx, chanMade, chanClosed, wg, printed >>
    /\ UNCHANGED taskVars

\* The body of the range loop: exitCode is raised when the report has errors.
NextExitCodeLast(code, rep) == IF HasErrors(rep.report) THEN 1 ELSE 0
NextExitCode(code, rep) == IF HasErrors(rep.report) THEN 1 ELSE code

\* One iteration of for r := range reports: the receive completes the send of one
\* blocked sender (the channel is unbuffered), whose task then goes on behind its
\* send; the body prints the name, raises exitCode and prints the diagnostics.
MainReceive(t) ==
    /\ Alive /\ mainPc = "range" /\ ~chanClosed
    /\ taskPc[t] = "send"
    /\ outbox' = [outbox EXCEPT ![t] = None]
    /\ taskPc' = [taskPc EXCEPT ![t] = "sent"]
    /\ exitCode' = NextExitCode(exitCode, outbox[t])
    /\ printed' = Append(printed, outbox[t])
    /\ UNCHANGED << fs, logOut, attrPath, rendered, proc, status, mainPc, testCases, idx, chanMade, chanClosed, wg,
                    closerPc, ctxDiags, mocks, calls >>

\* The range loop ends on the closed channel; os.Exit(exitCode).
MainExit ==
    /\ Alive /\ mainPc = "range" /\ chanClosed
    /\ mainPc' = "exit"
    /\ proc' = "exited"
    /\ status' = exitCode
    /\ UNCHANGED << fs, logOut, attrPath, rendered, testCases, idx, chanMade, chanClosed, wg, exitCode, printed,
                    closerPc >>
    /\ UNCHANGED taskVars

-----------------------------------------------------------------------------
(* The goroutine that waits for the tasks and closes the channel.          *)

\* wg.Wait() returns once the counter is 0; close(reports).
WaitReturnsEarly == wg <= 1
WaitNeverReturns == wg < 0
WaitReturns == wg = 0

CloserClose ==
    /\ Alive /\ closerPc = "wait" /\ WaitReturns
    /\ chanClosed' = TRUE
    /\ closerPc' = "done"
    /\ UNCHANGED << fs, logOut, attrPath, rendered, proc, status, wg >>
    /\ UNCHANGED mainVars
    /\ UNCHANGED taskVars

-----------------------------------------------------------------------------
(* runTestCase, one goroutine per test case.                               *)

MaxMocks == 1       \* bound: mocks a parsed spec may declare

\* The stage runTestCase goes to when `stage` returned without error.
NextStagePlanFirst(stage, nMocks) ==
    CASE stage = "NewContextOptions" -> "NewContext"
      [] stage = "NewContext"        -> "ReadSpec"
      [] stage = "ReadSpec"          -> IF nMocks > 0 THEN "InjectMockedData" ELSE "Plan"
      [] stage = "InjectMockedData"  -> "Plan"
      [] stage = "Plan"              -> "Refresh"
      [] stage = "Refresh"           -> "Validate"

NextStageNoInject(stage, nMocks) ==
    CASE stage = "NewContextOptions" -> "NewContext"
      [] stage = "NewContext"        -> "ReadSpec"
      [] stage = "ReadSpec"          -> "Refresh"
      [] stage = "InjectMockedData"  -> "Refresh"
      [] stage = "Refresh"           -> "Plan"
      [] stage = "Plan"              -> "Validate"

NextStageAlwaysInject(stage, nMocks) ==
    CASE stage = "NewContextOptions" -> "NewContext"
      [] stage = "NewContext"        -> "ReadSpec"
      [] stage = "ReadSpec"          -> "InjectMockedData"
      [] stage = "InjectMockedData"  -> "Refresh"
      [] stage = "Refresh"           -> "Plan"
      [] stage = "Plan"              -> "Validate"

NextStage(stage, nMocks) ==
    CASE stage = "NewContextOptions" -> "NewContext"
      [] stage = "NewContext"        -> "ReadSpec"
      [] stage = "ReadSpec"          -> IF nMocks > 0 THEN "InjectMockedData" ELSE "Refresh"
      [] stage = "InjectMockedData"  -> "Refresh"
      [] stage = "Refresh"           -> "Plan"
      [] stage = "Plan"              -> "Validate"

\* The two outputs the code gives the standard logger: os.Stderr, and the level filter
\* of logging.SetOutput (which discards unless TF_LOG is set).
LogStderr == "stderr"
LogFilter == "filtered"

\* log.SetOutput(w), also what logging.SetOutput() ends in: the one logger of the
\* process gets a new output.
SetOutput(w) == logOut' = w

\* The calls that go into the planning engine (and may never return).
EngineStages == { "NewContext", "Refresh", "Plan" }

Called(t, stage, result) ==
    calls' = [calls EXCEPT ![t] = Append(@, [stage |-> stage, result |-> result])]

\* if fatalReport(tc.name(), ctxDiags, planOutput, results) { return }: with errors the
\* task blocks in the send of the report; without, it goes on with the next stage.
fatalReportNeverFatal(t, err, next) ==
    /\ taskPc' = [taskPc EXCEPT ![t] = next]
    /\ UNCHANGED outbox

fatalReport(t, err, next) ==
    IF HasErrors(err)
    THEN /\ outbox' = [outbox EXCEPT ![t] = Report(t, err)]
         /\ taskPc' = [taskPc EXCEPT ![t] = "send"]
    ELSE /\ taskPc' = [taskPc EXCEPT ![t] = next]
         /\ UNCHANGED outbox

\* A stage call that returns its diagnostics, followed by the fatalReport test.
RunStage(t, stage, nMocks) ==
    /\ Alive /\ taskPc[t] = stage
    /\ \E d \in StageDiags(stage) :
        /\ ctxDiags' = [ctxDiags EXCEPT ![t] = d]
        /\ Called(t, stage, IF HasErrors(d) THEN "error" ELSE "ok")
        /\ fatalReport(t, d, NextStage(stage, nMocks))
    /\ UNCHANGED << fs, attrPath, rendered, proc, status, chanClosed, wg, closerPc >>
    /\ UNCHANGED mainVars

\* logging.SetOutput()
\* tfOptions, ctxDiags := terraspec.NewContextOptions(".", tc.variableFile)
TaskNewContextOptions(t) ==
    /\ RunStage(t, "NewContextOptions", mocks[t])
    /\ SetOutput(LogFilter)
    /\ UNCHANGED mocks

\* tfCtx, ctxDiags := terraform.NewContext(tfOptions)
TaskNewContext(t) == RunStage(t, "NewContext", mocks[t]) /\ UNCHANGED << mocks, logOut >>

\* spec, ctxDiags := terraspec.ReadSpec(tc.specFile, tfCtx.Schemas()); the parsed spec
\* declares any number of mocks.
TaskReadSpec(t) ==
    \E n \in 0..MaxMocks :
        /\ mocks' = [mocks EXCEPT ![t] = n]
        /\ RunStage(t, "ReadSpec", n)
        /\ UNCHANGED logOut

\* ctxDiags = terraspec.InjectMockedData(tfOptions, spec.Mocks)
TaskInjectMockedData(t) == RunStage(t, "InjectMockedData", mocks[t]) /\ UNCHANGED << mocks, logOut >>

\* _, ctxDiags = tfCtx.Refresh()
TaskRefresh(t) == RunStage(t, "Refresh", mocks[t]) /\ UNCHANGED << mocks, logOut >>

\* plan, ctxDiags := tfCtx.Plan(); behind a plan without errors, log.SetOutput(os.Stderr)
\* and the rendering of the plan into a local buffer.
TaskPlan(t) ==
    /\ RunStage(t, "Plan", mocks[t])
    /\ IF taskPc'[t] = "Validate" THEN SetOutput(LogStderr) ELSE UNCHANGED logOut
    /\ UNCHANGED mocks

\* A call into the engine that never returns: the task stays in it for good.
TaskHang(t) ==
    /\ Alive /\ taskPc[t] \in EngineStages
    /\ Called(t, taskPc[t], "hung")
    /\ taskPc' = [taskPc EXCEPT ![t] = "hung"]
    /\ UNCHANGED << fs, logOut, attrPath, rendered, proc, status, chanClosed, wg, closerPc, ctxDiags, mocks, outbox >>
    /\ UNCHANGED mainVars

\* &testReport{name: tc.name(), report: ctxDiags, plan: planOutput} behind Validate:
\* ctxDiags holds what spec.Validate returned, d, and nothing of the stages before.
FinalReportKeepsEarlier(t, d) == Report(t, ctxDiags[t] \o d)
FinalReport(t, d) == Report(t, d)

\* logging.SetOutput()
\* ctxDiags, err := spec.Validate(plan); if err != nil { log.Fatal(err) };
\* results <- &testReport{...}
TaskValidate(t) ==
    /\ Alive /\ taskPc[t] = "Validate"
    /\ \/ /\ Called(t, "Validate", "fatal")
          /\ logFatal
          /\ UNCHANGED << taskPc, ctxDiags, outbox >>
       \/ \E d \in ValidateDiags :
            /\ ctxDiags' = [ctxDiags EXCEPT ![t] = d]
            /\ Called(t, "Validate", IF HasErrors(d) THEN "error" ELSE "ok")
            /\ outbox' = [outbox EXCEPT ![t] = FinalReport(t, d)]
            /\ taskPc' = [taskPc EXCEPT ![t] = "send"]
            /\ UNCHANGED << proc, status >>
    /\ SetOutput(LogFilter)
    /\ UNCHANGED << fs, attrPath, rendered, chanClosed, wg, closerPc, mocks >>
    /\ UNCHANGED mainVars

\* runTestCase returns behind its send, its locals are gone; wg.Done().
TaskDone(t) ==
    /\ Alive /\ taskPc[t] = "sent"
    /\ taskPc' = [taskPc EXCEPT ![t] = "done"]
    /\ wg' = wg - 1
    /\ ctxDiags' = [ctxDiags EXCEPT ![t] = << >>]
    /\ mocks' = [mocks EXCEPT ![t] = 0]
    /\ UNCHANGED << fs, logOut, attrPath, rendered, proc, status, chanClosed, closerPc, calls, outbox >>
    /\ UNCHANGED mainVars

-----------------------------------------------------------------------------

Next ==
    \/ MainFindCases
    \/ MainMakeChan
    \/ MainSpawn
    \/ MainStartCloser
    \/ \E t \in Tasks : MainReceive(t)
    \/ MainExit
    \/ CloserClose
    \/ \E t \in Tasks : TaskNewContextOptions(t)
    \/ \E t \in Tasks : TaskNewContext(t)
    \/ \E t \in Tasks : TaskReadSpec(t)
    \/ \E t \in Tasks : TaskInjectMockedData(t)
    \/ \E t \in Tasks : TaskRefresh(t)
    \/ \E t \in Tasks : TaskPlan(t)
    \/ \E t \in Tasks : TaskHang(t)
    \/ \E t \in Tasks : TaskValidate(t)
    \/ \E t \in Tasks : TaskDone(t)

Spec == Init /\ [][Next]_vars

\* The runs in which every call of a stage returns, under fair scheduling: as long as
\* some goroutine can take a step, one of them does.
NextReturning ==
    \/ MainFindCases
    \/ MainMakeChan
    \/ MainSpawn
    \/ MainStartCloser
    \/ \E t \in Tasks : MainReceive(t)
    \/ MainExit
    \/ CloserClose
    \/ \E t \in Tasks : TaskNewContextOptions(t)
    \/ \E t \in Tasks : TaskNewContext(t)
    \/ \E t \in Tasks : TaskReadSpec(t)
    \/ \E t \in Tasks : TaskInjectMockedData(t)
    \/ \E t \in Tasks : TaskRefresh(t)
    \/ \E t \in Tasks : TaskPlan(t)
    \/ \E t \in Tasks : TaskValidate(t)
    \/ \E t \in Tasks : TaskDone(t)

LiveSpec == Init /\ [][NextReturning]_vars /\ WF_vars(NextReturning)

\* Discovery alone, over every tree of the bounded family.
InitFind == IsTree(fs) /\ InitRest /\ NoPath

NextFind == MainFindCases

SpecFind == InitFind /\ [][NextFind]_vars

-----------------------------------------------------------------------------
(* formatPath, called by printDiags for a diagnostic with an attribute     *)
(* path.  A string is the sequence of its pieces: a name, a digit, or one  *)
(* of ".", "[", "]", "-".                                                  *)

MaxPathLen == 4     \* bound: steps of an attribute path

\* cty.GetAttrStep{Name} and cty.IndexStep{Key} with a number as key.
AttrStep(name) == [kind |-> "attr", name |-> name, key |-> 0]
IndexStep(key) == [kind |-> "index", name |-> "", key |-> key]

\* strconv.Itoa
DigitChars == << "0", "1", "2", "3", "4", "5", "6", "7", "8", "9" >>

RECURSIVE ItoaNat(_)
ItoaNat(n) ==
    IF n < 10 THEN << DigitChars[n + 1] >>
    ELSE ItoaNat(n \div 10) \o << DigitChars[(n % 10) + 1] >>

Itoa(n) == IF n < 0 THEN << "-" >> \o ItoaNat(0 - n) ELSE ItoaNat(n)

\* The body of formatPath's loop for the step pa at index i (from 0, as in the code):
\* what it writes to the strings.Builder sb.
WriteStepDotAlways(i, pa, sb) ==
    CASE pa.kind = "attr"  -> sb \o << "." >> \o << pa.name >>
      [] pa.kind = "index" -> sb \o << "[" >> \o Itoa(pa.key) \o << "]" >>

WriteStepDotBeforeIndex(i, pa, sb) ==
    CASE pa.kind = "attr"  -> sb \o << pa.name >>
      [] pa.kind = "index" -> (IF i > 0 THEN sb \o << "." >> ELSE sb)
                              \o << "[" >> \o Itoa(pa.key) \o << "]" >>

WriteStep(i, pa, sb) ==
    CASE pa.kind = "attr"  -> (IF i > 0 THEN sb \o << "." >> ELSE sb) \o << pa.name >>
      [] pa.kind = "index" -> sb \o << "[" >> \o Itoa(pa.key) \o << "]" >>

RECURSIVE FormatFrom(_, _, _)
FormatFrom(p, i, sb) ==
    IF i >= Len(p) THEN sb ELSE FormatFrom(p, i + 1, WriteStep(i, p[i + 1], sb))

formatPath(p) == FormatFrom(p, 0, << >>)

\* The steps the paths of the bounded family are made of.
StepUniverse ==
    { AttrStep("rule"), AttrStep("tags"), AttrStep("env"),
      IndexStep(0), IndexStep(2), IndexStep(10), IndexStep(307) }

IsPath(p) == \E n \in 0..MaxPathLen : p \in [1..n -> StepUniverse]

\* printDiags: colorstring.Printf("[bold]%s ", formatPath(path))
PrintPath ==
    /\ Alive /\ rendered = None
    /\ rendered' = [text |-> formatPath(attrPath)]
    /\ UNCHANGED << fs, logOut, proc, status, chanClosed, wg, closerPc, attrPath >>
    /\ UNCHANGED mainVars
    /\ UNCHANGED taskVars

\* Path rendering alone, over every path of the bounded family.
InitPath == fs = NoDir /\ InitRest /\ IsPath(attrPath) /\ rendered = None

NextPath == PrintPath

SpecPath == InitPath /\ [][NextPath]_vars

-----------------------------------------------------------------------------
(* Vocabulary of the properties.                                           *)

Cases == 1..Len(testCases)

\* The reports of test case t that were printed, and those sent or being sent.
PrintedOf(t) == { i \in 1..Len(printed) : printed[i].tc = t }
Offered(t) == IF outbox[t] # None THEN 1 ELSE 0
ReportOf(t) ==
    IF outbox[t] # None THEN outbox[t] ELSE printed[CHOOSE i \in PrintedOf(t) : TRUE]

LastCall(t) == calls[t][Len(calls[t])]
Returned(t, stage, result) ==
    calls[t] # << >> /\ LastCall(t).stage = stage /\ LastCall(t).result = result
StageNames(t) == [i \in 1..Len(calls[t]) |-> calls[t][i].stage]

SomeErrorPrinted ==
    \E i \in 1..Len(printed) : \E j \in 1..Len(printed[i].report) :
        printed[i].report[j].severity = "Error"

-----------------------------------------------------------------------------
\* C1: when main leaves the collecting loop and exits, the exit code is 1 if and only
\* if at least one received report holds an Error diagnostic, and 0 otherwise.
C1_ExitCodeIffSomeError ==
    mainPc = "exit" =>
        /\ proc = "exited"
        /\ status \in {0, 1}
        /\ status = 1 <=> SomeErrorPrinted

\* A run that ends with exit code 1 although the last report received has no error.
C1_Witness ==
    /\ mainPc = "exit" /\ status = 1
    /\ Len(printed) = 2
    /\ \A j \in 1..Len(printed[2].report) : printed[2].report[j].severity # "Error"

\* C2: no test case ever sends more than one report; a task that is past its send has
\* had exactly one report received; and when main exits through the end of the loop,
\* the reports consumed are one per discovered test case.
C2_OneReportPerCase ==
    /\ \A t \in Tasks : Cardinality(PrintedOf(t)) + Offered(t) <= 1
    /\ \A t \in Tasks : taskPc[t] \in {"sent", "done"} => Cardinality(PrintedOf(t)) = 1
    /\ \A t \in Tasks : taskPc[t] = "send" <=> outbox[t] # None
    /\ mainPc = "exit" =>
        /\ Len(printed) = Len(testCases)
        /\ \A t \in Cases : Cardinality(PrintedOf(t)) = 1

\* A finished run of two cases, one reporting from a failed stage, one from Validate.
C2_Witness ==
    /\ mainPc = "exit" /\ Len(testCases) = 2 /\ Len(printed) = 2
    /\ \E i, j \in 1..2 :
        /\ printed[i].report[1].source = "Validate"
        /\ printed[j].report[1].source = "Refresh"

\* C3: when one of the six stages before Validate returns diagnostics with an error,
\* the report of that case carries exactly the diagnostics that stage returned, the
\* task is at or behind its send, and the failed call is the last call of the case.
C3_FailedStageReportsItsDiags ==
    \A t \in Tasks : \A i \in 1..Len(calls[t]) :
        (calls[t][i].result = "error" /\ calls[t][i].stage # "Validate") =>
            /\ i = Len(calls[t])
            /\ taskPc[t] \in {"send", "sent", "done"}
            /\ ReportOf(t).report =
                  << Diag("Warning", calls[t][i].stage), Diag("Error", calls[t][i].stage) >>
            /\ ReportOf(t).name = CaseName(testCases[t])

\* A case whose plan failed and whose report was printed.
C3_Witness ==
    \E t \in Tasks :
        /\ Returned(t, "Plan", "error")
        /\ taskPc[t] = "done"
        /\ Len(calls[t]) >= 5

\* C4: a failing engine stage of one case leaves the other cases alone: it never ends
\* the process, and with a case that failed at Plan and another that passed every
\* stage, the passing one made all its calls, its Validate report is sent, and once
\* main exits that report is printed and the exit code is 1.
FullRun(t) ==
    StageNames(t) \in
        { << "NewContextOptions", "NewContext", "ReadSpec", "InjectMockedData",
             "Refresh", "Plan", "Validate" >>,
          << "NewContextOptions", "NewContext", "ReadSpec", "Refresh", "Plan", "Validate" >> }

C4_FailureIsolated ==
    /\ proc = "fatal" =>
        \/ mainPc = "aborted"
        \/ \E t \in Tasks : Returned(t, "Validate", "fatal")
    /\ \A a, b \in Tasks :
        (a # b /\ Returned(a, "Plan", "error") /\ Returned(b, "Validate", "ok")) =>
            /\ FullRun(b)
            /\ ReportOf(b).report = << Diag("Info", "Validate") >>
            /\ mainPc = "exit" =>
                /\ PrintedOf(b) # {}
                /\ PrintedOf(a) # {}
                /\ status = 1

\* The run of a case failing at Plan and a passing case has ended, the failure first.
C4_Witness ==
    /\ mainPc = "exit"
    /\ \E a, b \in Tasks :
        /\ a # b /\ Returned(a, "Plan", "error") /\ Returned(b, "Validate", "ok")
        /\ printed[1].tc = a /\ printed[2].tc = b

-----------------------------------------------------------------------------
\* The stage of the specification's state machine a call belongs to, by its position
\* in Discovered, ConfigParsed, MockInjected, Refreshed, Planned, SpecParsed, Validated.
SpecRank(stage) ==
    CASE stage = "NewContextOptions" -> 1
      [] stage = "NewContext"        -> 1
      [] stage = "InjectMockedData"  -> 2
      [] stage = "Refresh"           -> 3
      [] stage = "Plan"              -> 4
      [] stage = "ReadSpec"          -> 5
      [] stage = "Validate"          -> 6

\* C5 as stated: every call of a case belongs to the stage of the call before it or
\* to the next stage of Discovered, ConfigParsed, MockInjected, Refreshed, Planned,
\* SpecParsed, Validated.
C5_SpecifiedOrder ==
    \A t \in Tasks : \A i \in 1..Len(calls[t]) :
        LET before == IF i = 1 THEN 0 ELSE SpecRank(calls[t][i - 1].stage)
        IN  SpecRank(calls[t][i].stage) \in {before, before + 1}

IsPrefix(s, full) == Len(s) <= Len(full) /\ SubSeq(full, 1, Len(s)) = s

\* C5 as amended: the calls of a case are a prefix of NewContextOptions, NewContext,
\* ReadSpec, InjectMockedData, Refresh, Plan, Validate, with InjectMockedData left out
\* when the spec has no mocks, and every call but the last returned without error.
C5_CodeOrder ==
    \A t \in Tasks :
        /\ \/ IsPrefix(StageNames(t),
                       << "NewContextOptions", "NewContext", "ReadSpec", "InjectMockedData",
                          "Refresh", "Plan", "Validate" >>)
           \/ IsPrefix(StageNames(t),
                       << "NewContextOptions", "NewContext", "ReadSpec", "Refresh", "Plan",
                          "Validate" >>)
        /\ \A i \in 1..(Len(calls[t]) - 1) : calls[t][i].result = "ok"
        /\ taskPc[t] = "idle" => calls[t] = << >>

\* A case that went through every stage, mock injection included, and has reported.
C5_Witness ==
    \E t \in Tasks :
        /\ taskPc[t] = "done"
        /\ Len(calls[t]) = 7
        /\ Returned(t, "Validate", "ok")

\* C6: while a task runs a spec that declares a mock, its Refresh call directly
\* follows an InjectMockedData call that returned without error, and its Plan call
\* directly follows a Refresh call that returned without error.  (The calls of a case
\* are all made before its task returns and drops the spec.)
C6_MocksBeforeRefreshBeforePlan ==
    \A t \in Tasks : mocks[t] > 0 =>
        \A i \in 1..Len(calls[t]) :
            /\ calls[t][i].stage = "Refresh" =>
                  i > 1 /\ calls[t][i - 1] = [stage |-> "InjectMockedData", result |-> "ok"]
            /\ calls[t][i].stage = "Plan" =>
                  i > 1 /\ calls[t][i - 1] = [stage |-> "Refresh", result |-> "ok"]

\* A task with a mock in its spec has called Plan and is blocked in its send.
C6_Witness ==
    \E t \in Tasks :
        /\ mocks[t] > 0
        /\ taskPc[t] = "send"
        /\ \E i \in 1..Len(calls[t]) : calls[t][i].stage = "Plan"

\* C7: the channel is closed and main exits through the end of the loop only when
\* every task has finished; a task stuck in an engine call stays stuck, and while it
\* is stuck the channel is not closed and the process does not exit with a verdict.
AllTasksDone == \A t \in Cases : taskPc[t] = "done"

C7_NoVerdictBeforeAllTasks ==
    [][ /\ (chanClosed' \/ mainPc' = "exit" \/ proc' = "exited") => AllTasksDone'
        /\ \A t \in Tasks : taskPc[t] = "hung" =>
              taskPc'[t] = "hung" /\ ~chanClosed' /\ proc' # "exited" ]_vars

\* One task is stuck in the engine, the other has reported, finished and been printed.
C7_Witness ==
    /\ Len(testCases) = 2
    /\ taskPc[1] = "hung" /\ taskPc[2] = "done"
    /\ Len(printed) = 1 /\ wg = 1
    /\ mainPc = "range" /\ closerPc = "wait" /\ ~chanClosed

\* C8: once findCases has returned no test case, the process is dead by log.Fatal
\* while no channel was made, no task was started, and nothing was sent or printed.
C8_NoCasesAbortsBeforeAnyTask ==
    (mainPc # "findCases" /\ Len(testCases) = 0) =>
        /\ proc = "fatal" /\ status = 1 /\ mainPc = "aborted"
        /\ ~chanMade /\ ~chanClosed /\ wg = 0 /\ closerPc = "idle"
        /\ \A t \in Tasks : taskPc[t] = "idle" /\ calls[t] = << >> /\ outbox[t] = None
        /\ printed = << >>

\* findCases read the root and found no test case.
C8_Witness ==
    /\ fs.readable
    /\ mainPc = "aborted" /\ testCases = << >> /\ proc = "fatal"

-----------------------------------------------------------------------------
\* Whether directory d directly holds a file whose name ends in a dot and ext.
HoldsFile(d, ext) ==
    \E i \in 1..Len(d.entries) :
        LET n == d.entries[i].name
        IN  /\ ~d.entries[i].isDir
            /\ Len(n) >= 2 /\ n[Len(n) - 1] = "." /\ n[Len(n)] = ext

Subdirs == { fs.entries[i] : i \in { j \in 1..Len(fs.entries) : fs.entries[j].isDir } }

\* The directory a test case is about.
DirOfCase(tc) ==
    IF tc.dir = RootPath THEN fs
    ELSE (CHOOSE e \in Subdirs : Join(RootPath, e.name) = tc.dir).dir

\* The directories with a spec file: such subdirectories of the root (all of them, or
\* the readable ones) and the root itself.
SpecDirs(readableOnly) ==
    { Join(RootPath, e.name) :
        e \in { x \in Subdirs : HoldsFile(x.dir, "tfspec") /\ (readableOnly => x.dir.readable) } }
    \cup (IF HoldsFile(fs, "tfspec") THEN { RootPath } ELSE { })

\* findCases returned one well-formed test case for each directory of `dirs`.
Discovered(dirs) ==
    /\ { testCases[i].dir : i \in 1..Len(testCases) } = dirs
    /\ Len(testCases) = Cardinality(dirs)
    /\ \A i \in 1..Len(testCases) :
        LET tc == testCases[i]
            d == DirOfCase(tc)
        IN  /\ tc.specFile # EmptyString
            /\ \E k \in 1..Len(d.entries) :
                  /\ ~d.entries[k].isDir
                  /\ tc.specFile = Join(tc.dir, d.entries[k].name)
            /\ tc.variableFile = EmptyString <=> ~HoldsFile(d, "tfvars")

FindCasesReturned == mainPc # "findCases" /\ fs.readable

\* C10 as stated: findCases returns one test case for each immediate subdirectory of
\* the root that directly holds a .tfspec file, plus the root if it holds one, and no
\* other; each has a spec file, and no variables file exactly when its directory
\* holds no .tfvars file.
C10_OneCasePerSpecDir == FindCasesReturned => Discovered(SpecDirs(FALSE))

\* C10 as amended: the same, for the subdirectories ioutil.ReadDir can read; a
\* subdirectory that cannot be read yields no test case.
C10_OneCasePerReadableSpecDir == FindCasesReturned => Discovered(SpecDirs(TRUE))

\* The root and one subdirectory are test cases, the one with and the other without a
\* variables file; the other subdirectory holds a spec file and cannot be read.
C10_Witness ==
    /\ mainPc = "make" /\ Len(testCases) = 2
    /\ testCases[2].dir = RootPath
    /\ testCases[1].variableFile # EmptyString
    /\ testCases[2].variableFile = EmptyString
    /\ \E e \in Subdirs : ~e.dir.readable /\ HoldsFile(e.dir, "tfspec")
    /\ \E e \in Subdirs : e.dir.readable /\ DeepDir \in { e.dir.entries[i] : i \in 1..Len(e.dir.entries) }

-----------------------------------------------------------------------------
\* The steps a rendered path reads as: a name at the very start or behind a ".", and
\* "[", digits, "]" anywhere; anything else is malformed.
Malformed == << [kind |-> "malformed", name |-> "", key |-> 0] >>

IsDigit(c) == \E d \in 1..10 : DigitChars[d] = c
DigitValue(c) == (CHOOSE d \in 1..10 : DigitChars[d] = c) - 1
IsName(c) == ~IsDigit(c) /\ c \notin { ".", "[", "]", "-" }

RECURSIVE Number(_, _, _, _)
Number(toks, i, j, acc) ==
    IF i > j THEN acc ELSE Number(toks, i + 1, j, acc * 10 + DigitValue(toks[i]))

RECURSIVE ReadPath(_, _, _)
ReadPath(toks, i, acc) ==
    IF i > Len(toks) THEN acc
    ELSE IF toks[i] = "["
    THEN LET closing == { j \in (i + 2)..Len(toks) :
                            toks[j] = "]" /\ \A k \in (i + 1)..(j - 1) : IsDigit(toks[k]) }
         IN  IF closing = {} THEN Malformed
             ELSE LET j == CHOOSE x \in closing : TRUE
                  IN  ReadPath(toks, j + 1, Append(acc, IndexStep(Number(toks, i + 1, j - 1, 0))))
    ELSE IF toks[i] = "."
    THEN IF i > 1 /\ i < Len(toks) /\ IsName(toks[i + 1])
         THEN ReadPath(toks, i + 2, Append(acc, AttrStep(toks[i + 1])))
         ELSE Malformed
    ELSE IF i = 1 /\ IsName(toks[i])
    THEN ReadPath(toks, i + 1, Append(acc, AttrStep(toks[i])))
    ELSE Malformed

Dots(toks) == Cardinality({ i \in 1..Len(toks) : toks[i] = "." })
LaterAttrSteps(p) == Cardinality({ i \in 2..Len(p) : p[i].kind = "attr" })

\* C11: what formatPath returns for a path of attribute and integer index steps reads
\* back, left to right, as exactly the steps of the path: a "." stands before a name
\* exactly when the step is not the first, "[n]" follows what precedes it directly;
\* and (rule, [2], tags, env) is rendered rule[2].tags.env.
C11_PathRendering ==
    rendered # None =>
        /\ ReadPath(rendered.text, 1, << >>) = attrPath
        /\ Dots(rendered.text) = LaterAttrSteps(attrPath)
        /\ attrPath = << AttrStep("rule"), IndexStep(2), AttrStep("tags"), AttrStep("env") >>
              => rendered.text = << "rule", "[", "2", "]", ".", "tags", ".", "env" >>

\* The path (rule, [2], tags, env) has been rendered.
C11_Witness ==
    /\ attrPath = << AttrStep("rule"), IndexStep(2), AttrStep("tags"), AttrStep("env") >>
    /\ rendered # None

-----------------------------------------------------------------------------
\* How each case ended, by the result of its last call, and the exit code these
\* outcomes stand for.
Outcomes == [t \in Cases |-> LastCall(t).result]
Verdict(o) == IF \E t \in DOMAIN o : o[t] = "error" THEN 1 ELSE 0

\* C12: when main exits through the end of the loop, the exit code is a function of
\* the outcomes of the cases alone, whatever the interleaving of the tasks and the
\* order in which their reports arrived: 1 if some case ended in an error, else 0;
\* the reports printed are those of the cases, each once, in the order of arrival.
C12_ExitCodeIgnoresArrivalOrder ==
    mainPc = "exit" =>
        /\ status = Verdict(Outcomes)
        /\ { printed[i].tc : i \in 1..Len(printed) } = Cases
        /\ Len(printed) = Len(testCases)

\* A finished run in which the report of the second case arrived before that of the
\* first, and the first, arriving last, is the only one with an error.
C12_Witness ==
    /\ mainPc = "exit" /\ Len(printed) = 2
    /\ printed[1].tc = 2 /\ printed[2].tc = 1
    /\ Outcomes = << "error", "ok" >>
    /\ status = 1

-----------------------------------------------------------------------------
\* The tasks that are between their log.SetOutput(os.Stderr) and their second
\* logging.SetOutput().
RenderingPlan == { t \in Tasks : Alive /\ taskPc[t] = "Validate" }

\* C13: the tasks share no mutable state, the output of the logger included: a task
\* that gave the logger the output os.Stderr finds that output in place until it
\* changes it itself, whatever the other tasks do meanwhile.
C13_LoggerOutputIsTaskLocal ==
    \A t \in RenderingPlan : logOut = LogStderr

-----------------------------------------------------------------------------
\* C14: once the channel is closed, every task has completed and every report sent
\* has been received (none is pending, one is printed per case); a task that has
\* completed had its report received before; and no task is ever in a send on the
\* closed channel.
C14_CloseAfterAllReceived ==
    /\ chanClosed =>
        /\ wg = 0
        /\ \A t \in Cases : taskPc[t] = "done"
        /\ \A t \in Tasks : outbox[t] = None
        /\ Len(printed) = Len(testCases)
    /\ \A t \in Tasks : taskPc[t] = "done" => Cardinality(PrintedOf(t)) = 1
    /\ \A t \in Tasks : ~(chanClosed /\ taskPc[t] = "send")

\* The channel has just been closed on two cases, main is still in its loop; one of
\* the reports came from fatalReport, the other from the send behind Validate.
C14_Witness ==
    /\ chanClosed /\ mainPc = "range" /\ Len(printed) = 2
    /\ \E a, b \in Tasks :
        /\ Returned(a, "NewContext", "error")
        /\ Returned(b, "Validate", "error")

-----------------------------------------------------------------------------
\* main has left its loop on the closed channel and exited, every task has completed
\* and the report of every case has been received.
ExitedBehindLoop ==
    /\ proc = "exited" /\ mainPc = "exit" /\ chanClosed
    /\ Len(printed) = Len(testCases)
    /\ \A t \in Cases : taskPc[t] = "done" /\ PrintedOf(t) # {}

-----------------------------------------------------------------------------
\* A step of the collecting loop that receives a report with an error.
ReceivesError ==
    /\ mainPc = "range" /\ mainPc' = "range"
    /\ Len(printed') = Len(printed) + 1
    /\ HasErrors(printed'[Len(printed')].report)

\* C16: exitCode starts at 0 and is 0 or 1; no step lowers it; and the only steps
\* that change it are those of the collecting loop that receive a report with an
\* error, which raise it from 0 to 1.
C16_ExitCodeMonotonic ==
    /\ exitCode = 0
    /\ [][ /\ exitCode' \in {0, 1}
           /\ exitCode' >= exitCode
           /\ exitCode' # exitCode => ReceivesError ]_vars

\* The loop is still running with exitCode 1: the first report received had an error,
\* the second, received later, had none.
C16_Witness ==
    /\ mainPc = "range" /\ exitCode = 1 /\ Len(printed) = 2
    /\ HasErrors(printed[1].report)
    /\ ~HasErrors(printed[2].report)

-----------------------------------------------------------------------------
\* C17: when spec.Validate of a case has returned its diagnostics (every stage before
\* it returned without errors), the report of the case carries exactly those: it is
\* one of the values Validate returns, every diagnostic in it comes from Validate,
\* and none of the warnings the earlier stages returned is in it, neither while the
\* report is being sent nor once the aggregator has it.
C17_ReportIsValidateDiagsOnly ==
    \A t \in Tasks :
        (calls[t] # << >> /\ LastCall(t).stage = "Validate"
                          /\ LastCall(t).result \in {"ok", "error"}) =>
            /\ \A i \in 1..(Len(calls[t]) - 1) : calls[t][i].result = "ok"
            /\ ReportOf(t).report \in ValidateDiags
            /\ \A j \in 1..Len(ReportOf(t).report) :
                /\ ReportOf(t).report[j].source = "Validate"
                /\ ReportOf(t).report[j].severity # "Warning"
            /\ taskPc[t] \in {"send", "sent"} => ReportOf(t).report = ctxDiags[t]

\* A case without mocks went through its six calls, each of the first five returning a
\* warning, and the aggregator has its report, which holds one Info diagnostic.
C17_Witness ==
    \E t \in Tasks :
        /\ Len(calls[t]) = 6 /\ Returned(t, "Validate", "ok")
        /\ PrintedOf(t) # {}
        /\ Len(ReportOf(t).report) = 1

-----------------------------------------------------------------------------
\* The tasks inside runTestCase whose spec has been parsed without errors, and whether
\* such a task is in, or has made, its call of InjectMockedData.
SpecParsed ==
    { t \in Tasks : /\ taskPc[t] \notin {"idle", "done"}
                    /\ Len(calls[t]) >= 3
                    /\ calls[t][3] = [stage |-> "ReadSpec", result |-> "ok"] }
Injects(t) ==
    \/ taskPc[t] = "InjectMockedData"
    \/ \E i \in 1..Len(calls[t]) : calls[t][i].stage = "InjectMockedData"

\* C18: a case whose spec was parsed goes into InjectMockedData if and only if the
\* parsed spec declares at least one mock; with no mock the call is never made and
\* the call that follows ReadSpec is Refresh, with a mock it is InjectMockedData.
C18_InjectIffMocks ==
    \A t \in SpecParsed :
        /\ Injects(t) <=> mocks[t] > 0
        /\ Len(calls[t]) = 3 =>
              taskPc[t] = (IF mocks[t] > 0 THEN "InjectMockedData" ELSE "Refresh")
        /\ Len(calls[t]) >= 4 =>
              calls[t][4].stage = (IF mocks[t] > 0 THEN "InjectMockedData" ELSE "Refresh")

\* Two cases are past the call that follows ReadSpec: one without mocks, which
\* refreshed, and one with a mock, which injected it.
C18_Witness ==
    \E a, b \in SpecParsed :
        /\ mocks[a] = 0 /\ Len(calls[a]) >= 4 /\ calls[a][4].stage = "Refresh"
        /\ mocks[b] > 0 /\ Len(calls[b]) >= 4 /\ calls[b][4].stage = "InjectMockedData"

====
